---- MODULE Spec2Model ----
(***************************************************************************)
(* fink_science.standardized_flux: the Spark pandas UDF standardized_flux  *)
(* (processor.py) and the per-alert transform standardized_flux_           *)
(* (utils.py).                                                             *)
(*                                                                         *)
(* Data encoding.  A raw cell of an alert column is <<>> (None, a null of  *)
(* the alert packet) or <<n>> (the number n).  A float is a record         *)
(* [nan, num, den]: not-a-number, or the quotient num/den.  A DataFrame is *)
(* a record of columns, each a sequence of one common length.              *)
(***************************************************************************)
EXTENDS Integers, Sequences, FiniteSets

VARIABLES
    pdf,          \* the batch handed to the UDF: a sequence of rows (processor.py:130)
    catalogFile,  \* the content of the parquet file at CTAO_PATH
    CTAO_blazar,  \* the catalog as loaded by the UDF (processor.py:128)
    loads,        \* number of pd.read_parquet calls of this UDF call
    sub,          \* the per-alert DataFrame of the current iteration (processor.py:147)
    out,          \* the list of results (processor.py:144)
    idx,          \* position of the for loop over pdf["candid"] (processor.py:145)
    pc,           \* position of the UDF: start, frame, loop, call, done, raised
    error,        \* the exception that left the UDF, "" if none
    calls         \* log of the standardized_flux_ invocations of this UDF call

vars == <<pdf, catalogFile, CTAO_blazar, loads, sub, out, idx, pc, error, calls>>

\* ------------------------------------------------------------------ bounds

MaxEpochs == 2   \* longest alert history of the single-alert specification
MaxRows == 2     \* most rows of a batch of the batch specification

\* ------------------------------------------------------------------ floats

NaN == [nan |-> TRUE, num |-> 0, den |-> 1]

Float(n) == [nan |-> FALSE, num |-> n, den |-> 1]

\* k * x for a float x (1000 * ... at utils.py:38)
Mul(k, x) == IF x.nan THEN NaN ELSE [nan |-> FALSE, num |-> k * x.num, den |-> x.den]

\* x / m for a float x and a number m (utils.py:53); numpy divides by zero
\* without raising, the quotient keeps den = 0
Div(x, m) == IF x.nan THEN NaN ELSE [nan |-> FALSE, num |-> x.num, den |-> x.den * m]

\* np.full(n, np.nan)
np_full_nan(n) == [i \in 1..n |-> NaN]

\* Series.astype(float) on one cell: None becomes nan, a number a float
astype_float(cell) == IF cell = <<>> THEN NaN ELSE Float(cell[1])

\* fink_utils.photometry.utils.apparent_flux: an external pure function of one
\* epoch; abstracted as reference flux plus or minus difference flux, with
\* nan for a missing magnitude.  Returns <<flux, sigma_flux>>.
apparent_flux(magpsf, sigmapsf, magnr, sigmagnr, isdiffpos) ==
    IF magpsf.nan \/ sigmapsf.nan \/ magnr.nan \/ sigmagnr.nan
    THEN <<NaN, NaN>>
    ELSE <<Float(10 * magnr.num + (IF isdiffpos = "t" THEN magpsf.num ELSE 0 - magpsf.num)),
           Float(sigmapsf.num + sigmagnr.num)>>

\* ------------------------------------------------------------------ frames

PerEpochFields ==
    {"cdistnr", "cmagpsf", "csigmapsf", "cmagnr", "csigmagnr", "cisdiffpos", "cfid", "cjd"}

\* len(pdf) of a DataFrame
FrameLen(df) == Len(df.candid)

\* pd.DataFrame({...}) of processor.py:147-160: candid and objectId are
\* scalars, the eight c* entries are arrays.  Arrays of different lengths
\* raise ValueError; scalars are broadcast to the arrays' length.
DataFrame(row) ==
    LET lens == {Len(row[f]) : f \in PerEpochFields}
    IN  IF Cardinality(lens) # 1
        THEN [status |-> "ValueError", frame |-> <<>>]
        ELSE LET n == CHOOSE l \in lens : TRUE
             IN  [status |-> "ok",
                  frame |-> [candid |-> [i \in 1..n |-> row.candid],
                             objectId |-> [i \in 1..n |-> row.objectId],
                             cdistnr |-> row.cdistnr,
                             cmagpsf |-> row.cmagpsf,
                             csigmapsf |-> row.csigmapsf,
                             cmagnr |-> row.cmagnr,
                             csigmagnr |-> row.csigmagnr,
                             cisdiffpos |-> row.cisdiffpos,
                             cfid |-> row.cfid,
                             cjd |-> row.cjd]]

NoFrame ==
    [candid |-> <<>>, objectId |-> <<>>, cdistnr |-> <<>>, cmagpsf |-> <<>>,
     csigmapsf |-> <<>>, cmagnr |-> <<>>, csigmagnr |-> <<>>, cisdiffpos |-> <<>>,
     cfid |-> <<>>, cjd |-> <<>>]

\* ------------------------------------------------------------------ utils.py

\* variant of CTAO_data: the selection without the name mask
CTAO_data_unmasked(catalog, name) == catalog

\* CTAO_blazar.loc[CTAO_blazar['ZTF Name'] == name]: the rows whose name
\* equals name exactly, in catalog order (a new frame)

CTAO_data(catalog, name) == SelectSeq(catalog, LAMBDA r : r.ZTF_Name = name)

\* variant of loc_effect: the selection filters the caller's catalog in place
loc_inplace(catalog, name) == CTAO_data(catalog, name)

\* the catalog object after the .loc selection: boolean-mask selection
\* returns a copy, the caller's catalog is not written

loc_effect(catalog, name) == catalog

\* the alert frame after the astype(float).values reads: astype returns a
\* new Series, the caller's frame is not written
astype_effect(df) == df

\* the list comprehension over zip(...): one apparent_flux call per epoch
flux_pairs(df) ==
    [i \in 1..FrameLen(df) |->
        apparent_flux(astype_float(df.cmagpsf[i]), astype_float(df.csigmapsf[i]),
                      astype_float(df.cmagnr[i]), astype_float(df.csigmagnr[i]),
                      df.cisdiffpos[i])]

\* flux_dc, sigma_flux_dc = 1000 * np.transpose([...])
flux_dc(df) == [i \in 1..FrameLen(df) |-> Mul(1000, flux_pairs(df)[i][1])]

sigma_flux_dc(df) == [i \in 1..FrameLen(df) |-> Mul(1000, flux_pairs(df)[i][2])]

\* Series.unique(): the distinct values in order of first appearance
RECURSIVE unique(_)
unique(s) ==
    IF s = <<>> THEN <<>>
    ELSE <<Head(s)>> \o SelectSeq(unique(Tail(s)), LAMBDA x : x # Head(s))

\* arr[k] for a 0-based Python/numpy index k: a negative k counts from the
\* end, anything outside -len..len-1 raises IndexError
py_index(arr, k) ==
    IF k >= 0 /\ k < Len(arr) THEN [status |-> "ok", value |-> arr[k + 1]]
    ELSE IF k < 0 /\ 0 - k <= Len(arr) THEN [status |-> "ok", value |-> arr[Len(arr) + k + 1]]
    ELSE [status |-> "IndexError", value |-> 0]

\* names bound at module level of utils.py
ModuleGlobals == {"np", "pd", "apparent_flux", "standardized_flux_"}

\* variant of precomputed_data: the lookup reads the matched rows CTAO_data
matched_rows(scope) == [bound |-> TRUE, value |-> scope.CTAO_data]

\* what the name precomputed_data resolves to at utils.py:52: a local of the
\* function, else a module global, else NameError (bound = FALSE)

precomputed_data(scope) ==
    IF "precomputed_data" \in DOMAIN scope \cup ModuleGlobals
    THEN [bound |-> TRUE, value |-> scope["precomputed_data"]]
    ELSE [bound |-> FALSE, value |-> <<>>]

\* the loop over pdf['cfid'].unique(): st holds the status and both output
\* arrays, scope the function's locals
RECURSIVE filter_loop(_, _, _)
filter_loop(filters, st, scope) ==
    IF filters = <<>> THEN st
    ELSE LET filter == Head(filters)
             table == precomputed_data(scope)
         IN  IF ~table.bound THEN [st EXCEPT !.status = "NameError"]
             ELSE LET m == py_index(table.value[1].Array_of_Medians, filter - 1)
                  IN  IF m.status # "ok" THEN [st EXCEPT !.status = m.status]
                      ELSE filter_loop(
                             Tail(filters),
                             [status |-> st.status,
                              std_flux |->
                                [i \in 1..Len(st.std_flux) |->
                                    IF scope.pdf.cfid[i] = filter
                                    THEN Div(scope.flux_dc[i], m.value)
                                    ELSE st.std_flux[i]],
                              sigma_std_flux |->
                                [i \in 1..Len(st.sigma_std_flux) |->
                                    IF scope.pdf.cfid[i] = filter
                                    THEN Div(scope.sigma_flux_dc[i], m.value)
                                    ELSE st.sigma_std_flux[i]]],
                             scope)

\* standardized_flux_(pdf, CTAO_blazar): the outcome (status "return" or the
\* exception raised), the two returned series, the number of apparent_flux
\* calls made, whether the catalog was read, and both arguments as the call
\* leaves them
standardized_flux_(df, catalog) ==
    LET n == FrameLen(df)
        raised(e, k, seen, dfAfter, catAfter) ==
            [status |-> e, flux |-> <<>>, sigma |-> <<>>, nflux |-> k,
             consulted |-> seen, pdf |-> dfAfter, CTAO_blazar |-> catAfter]
    IN  IF n = 0
        THEN raised("IndexError", 0, FALSE, df, catalog)
        ELSE LET name == df.objectId[1]
                 data == CTAO_data(catalog, name)
                 catAfter == loc_effect(catalog, name)
             IN  IF data = <<>>
                 THEN [status |-> "return", flux |-> np_full_nan(n),
                       sigma |-> np_full_nan(n), nflux |-> 0, consulted |-> TRUE,
                       pdf |-> df, CTAO_blazar |-> catAfter]
                 ELSE LET dfAfter == astype_effect(df)
                          scope == [pdf |-> dfAfter, CTAO_blazar |-> catAfter,
                                    name |-> name, CTAO_data |-> data,
                                    flux_dc |-> flux_dc(df),
                                    sigma_flux_dc |-> sigma_flux_dc(df)]
                          st == filter_loop(
                                  unique(dfAfter.cfid),
                                  [status |-> "return", std_flux |-> np_full_nan(n),
                                   sigma_std_flux |-> np_full_nan(n)],
                                  scope)
                      IN  IF st.status # "return"
                          THEN raised(st.status, n, TRUE, dfAfter, catAfter)
                          ELSE [status |-> "return", flux |-> st.std_flux,
                                sigma |-> st.sigma_std_flux, nflux |-> n,
                                consulted |-> TRUE, pdf |-> dfAfter,
                                CTAO_blazar |-> catAfter]

\* ------------------------------------------------------------------ processor.py

\* pdf[pdf["candid"] == candid_]: the rows of the batch carrying candid_
tmp(batch, candid_) == SelectSeq(batch, LAMBDA r : r.candid = candid_)

\* variant of LoopBack: the catalog is read again for every alert
LoopBackToRead == "start"

\* where control goes after out.append(...): back to the for statement

LoopBack == "loop"

\* CTAO_blazar = pd.read_parquet(CTAO_PATH)
ReadParquet ==
    /\ pc = "start"
    /\ CTAO_blazar' = catalogFile
    /\ loads' = loads + 1
    /\ pc' = "frame"
    /\ UNCHANGED <<pdf, catalogFile, sub, out, idx, error, calls>>

\* pdf = pd.DataFrame({...}); out = []
MakeFrame ==
    /\ pc = "frame"
    /\ out' = <<>>
    /\ idx' = 1
    /\ pc' = "loop"
    /\ UNCHANGED <<pdf, catalogFile, CTAO_blazar, loads, sub, error, calls>>

\* for candid_ in pdf["candid"]: tmp = ...; sub = pd.DataFrame({... [0] ...})
SelectRow ==
    /\ pc = "loop"
    /\ idx <= Len(pdf)
    /\ LET first == tmp(pdf, pdf[idx].candid)[1]
           made == DataFrame(first)
       IN  IF made.status = "ok"
           THEN /\ sub' = made.frame
                /\ pc' = "call"
                /\ error' = error
           ELSE /\ sub' = sub
                /\ pc' = "raised"
                /\ error' = made.status
    /\ UNCHANGED <<pdf, catalogFile, CTAO_blazar, loads, out, idx, calls>>

\* std_flux = standardized_flux_(sub, CTAO_blazar); out.append({...})
Invoke ==
    /\ pc = "call"
    /\ LET r == standardized_flux_(sub, CTAO_blazar)
       IN  /\ calls' = Append(calls, [row |-> idx, pdf |-> sub, cat |-> CTAO_blazar, r |-> r])
           /\ sub' = r.pdf
           /\ CTAO_blazar' = r.CTAO_blazar
           /\ IF r.status = "return"
              THEN /\ out' = Append(out, [flux |-> r.flux, sigma |-> r.sigma])
                   /\ idx' = idx + 1
                   /\ pc' = LoopBack
                   /\ error' = error
              ELSE /\ pc' = "raised"
                   /\ error' = r.status
                   /\ UNCHANGED <<out, idx>>
    /\ UNCHANGED <<pdf, catalogFile, loads>>

\* return pd.Series(out)
Return ==
    /\ pc = "loop"
    /\ idx > Len(pdf)
    /\ pc' = "done"
    /\ UNCHANGED <<pdf, catalogFile, CTAO_blazar, loads, sub, out, idx, error, calls>>

Next == ReadParquet \/ MakeFrame \/ SelectRow \/ Invoke \/ Return

\* ------------------------------------------------------------------ inputs

Mags == {<<>>, <<1>>, <<2>>}

Fids == {0, 1, 2, 3}

Epochs == [magpsf : Mags, fid : Fids]

Histories == UNION {[1..n -> Epochs] : n \in 0..MaxEpochs}

\* one row of the batch: the alert's scalars and its history h as the
\* concatenated c* arrays
Row(candid, objectId, h) ==
    [candid |-> candid,
     objectId |-> objectId,
     cdistnr |-> [i \in 1..Len(h) |-> <<0>>],
     cmagpsf |-> [i \in 1..Len(h) |-> h[i].magpsf],
     csigmapsf |-> [i \in 1..Len(h) |-> <<1>>],
     cmagnr |-> [i \in 1..Len(h) |-> <<3>>],
     csigmagnr |-> [i \in 1..Len(h) |-> <<1>>],
     cisdiffpos |-> [i \in 1..Len(h) |-> IF i % 2 = 1 THEN "t" ELSE "f"],
     cfid |-> [i \in 1..Len(h) |-> h[i].fid],
     cjd |-> [i \in 1..Len(h) |-> <<i>>]]

\* the row with the last element of column f missing
Short(row, f) == [row EXCEPT ![f] = SubSeq(@, 1, Len(@) - 1)]

WellFormed(row) == Cardinality({Len(row[f]) : f \in PerEpochFields}) = 1

ObjectIds == {"ZTF18a", "ZTF18b", "ZTF18x"}

Entry(name, medians) == [ZTF_Name |-> name, Array_of_Medians |-> medians]

Catalogs ==
    {<<>>,
     <<Entry("ZTF18a", <<2, 5>>)>>,
     <<Entry("ZTF18a", <<2>>)>>,
     <<Entry("ZTF18b", <<4, 5>>), Entry("ZTF18a", <<2, 7>>)>>}

AlertRows == {Row(101, o, h) : o \in ObjectIds, h \in Histories}

Candids == {101, 102}

BatchObjectIds == {"ZTF18a", "ZTF18x"}

BatchHistories ==
    {<<>>,
     <<[magpsf |-> <<1>>, fid |-> 1]>>,
     <<[magpsf |-> <<>>, fid |-> 2], [magpsf |-> <<2>>, fid |-> 1]>>}

BatchRowsOk == {Row(c, o, h) : c \in Candids, o \in BatchObjectIds, h \in BatchHistories}

BatchRows ==
    BatchRowsOk
    \cup {Short(r, f) : r \in {x \in BatchRowsOk : Len(x.cfid) > 0}, f \in {"cfid", "cjd"}}

Batches == UNION {[1..n -> BatchRows] : n \in 0..MaxRows}

InitWith(batches) ==
    /\ pdf \in batches
    /\ catalogFile \in Catalogs
    /\ CTAO_blazar = <<>>
    /\ loads = 0
    /\ sub = NoFrame
    /\ out = <<>>
    /\ idx = 0
    /\ pc = "start"
    /\ error = ""
    /\ calls = <<>>

\* one UDF call on a batch of up to MaxRows rows
Init == InitWith(Batches)

Spec == Init /\ [][Next]_vars

\* one UDF call on a single alert with a history of up to MaxEpochs epochs
InitAlert == InitWith({<<r>> : r \in AlertRows})

SpecAlert == InitAlert /\ [][Next]_vars

\* ------------------------------------------------------------------ properties

\* the catalog holds an entry named name (exact equality)
InCatalog(name, catalog) == \E j \in 1..Len(catalog) : catalog[j].ZTF_Name = name

\* the first entry of the catalog named name
FirstEntry(name, catalog) ==
    catalog[CHOOSE j \in 1..Len(catalog) :
                /\ catalog[j].ZTF_Name = name
                /\ \A h \in 1..(j - 1) : catalog[h].ZTF_Name # name]

\* every fid of the frame indexes a median of the entry
FidsCovered(df, entry) ==
    \A i \in 1..FrameLen(df) : df.cfid[i] \in 1..Len(entry.Array_of_Medians)

\* <<flux, sigma>> of epoch i of the frame, before scaling
EpochFlux(df, i) ==
    apparent_flux(astype_float(df.cmagpsf[i]), astype_float(df.csigmapsf[i]),
                  astype_float(df.cmagnr[i]), astype_float(df.csigmagnr[i]),
                  df.cisdiffpos[i])

AllNaN(s) == \A i \in 1..Len(s) : s[i] = NaN

\* C1: an alert with N >= 1 epochs, a catalog entry and a median for every
\* fid returns two sequences of length N whose position i holds
\* 1000 * apparent_flux(epoch i) over the median at index fid_i - 1 of the
\* entry matched for the alert's objectId.
C1_StandardizedByOwnMedian ==
    \A k \in 1..Len(calls) :
        LET c == calls[k]
            n == FrameLen(c.pdf)
        IN  (n >= 1 /\ InCatalog(c.pdf.objectId[1], c.cat)
                    /\ FidsCovered(c.pdf, FirstEntry(c.pdf.objectId[1], c.cat)))
            => /\ c.r.status = "return"
               /\ Len(c.r.flux) = n
               /\ Len(c.r.sigma) = n
               /\ \A i \in 1..n :
                    LET med == FirstEntry(c.pdf.objectId[1], c.cat).Array_of_Medians[c.pdf.cfid[i]]
                    IN  /\ c.r.flux[i] = Div(Mul(1000, EpochFlux(c.pdf, i)[1]), med)
                        /\ c.r.sigma[i] = Div(Mul(1000, EpochFlux(c.pdf, i)[2]), med)

\* C2: an alert with N >= 1 epochs whose objectId names no catalog entry
\* raises nothing, makes no apparent_flux call and returns two sequences of
\* length N that are not-a-number throughout.
C2_AbsentGivesAllNaN ==
    \A k \in 1..Len(calls) :
        LET c == calls[k]
            n == FrameLen(c.pdf)
        IN  (n >= 1 /\ ~InCatalog(c.pdf.objectId[1], c.cat))
            => /\ c.r.status = "return"
               /\ c.r.nflux = 0
               /\ Len(c.r.flux) = n /\ AllNaN(c.r.flux)
               /\ Len(c.r.sigma) = n /\ AllNaN(c.r.sigma)
               /\ Len(out) >= c.row
               /\ out[c.row] = [flux |-> c.r.flux, sigma |-> c.r.sigma]

C2_Witness ==
    /\ pc = "done"
    /\ \E k \in 1..Len(calls) :
        /\ FrameLen(calls[k].pdf) >= 2
        /\ calls[k].cat # <<>>
        /\ ~InCatalog(calls[k].pdf.objectId[1], calls[k].cat)

\* C3: an alert with zero epochs returns two empty sequences, raises nothing
\* and does not read the catalog.
C3_EmptyHistoryReturnsEmpty ==
    \A k \in 1..Len(calls) :
        FrameLen(calls[k].pdf) = 0
        => /\ calls[k].r.status = "return"
           /\ calls[k].r.flux = <<>>
           /\ calls[k].r.sigma = <<>>
           /\ ~calls[k].r.consulted

\* C4: an alert with a catalog entry and an epoch whose fid - 1 is no valid
\* 0-based position of the entry's medians ends in an error that leaves the
\* UDF; no result is returned for it.
C4_BadFidIsFatal ==
    \A k \in 1..Len(calls) :
        LET c == calls[k]
            name == c.pdf.objectId[1]
        IN  (/\ FrameLen(c.pdf) >= 1
             /\ InCatalog(name, c.cat)
             /\ ~FidsCovered(c.pdf, FirstEntry(name, c.cat)))
            => /\ c.r.status \in {"NameError", "IndexError"}
               /\ pc = "raised"
               /\ error = c.r.status
               /\ Len(out) < c.row

C4_Witness ==
    /\ pc = "raised"
    /\ \E k \in 1..Len(calls) :
        LET c == calls[k]
        IN  /\ FrameLen(c.pdf) >= 2
            /\ InCatalog(c.pdf.objectId[1], c.cat)
            /\ \E i \in 1..FrameLen(c.pdf) : c.pdf.cfid[i] <= 0
            /\ \E i \in 1..FrameLen(c.pdf) :
                 c.pdf.cfid[i] > Len(FirstEntry(c.pdf.objectId[1], c.cat).Array_of_Medians)

\* C5: a row whose per-epoch fields differ in length makes the UDF end in an
\* error; no result is produced for that row.
C5_MismatchedLengthsAreFatal ==
    \A k \in 1..Len(pdf) :
        ~WellFormed(pdf[k]) => (pc # "done" /\ Len(out) < k)

\* C6: with a catalog entry, the output at index i is a function of epoch i
\* and of the median of epoch i's filter alone: any other run that agrees
\* on both gives the same flux and sigma at index i.
C6_IndexDependsOnOwnEpoch ==
    \A k \in 1..Len(calls) :
        LET c == calls[k]
            n == FrameLen(c.pdf)
        IN  (n >= 1 /\ InCatalog(c.pdf.objectId[1], c.cat)
                    /\ FidsCovered(c.pdf, FirstEntry(c.pdf.objectId[1], c.cat)))
            => \A r2 \in AlertRows, cat2 \in Catalogs :
                 LET df2 == DataFrame(r2).frame
                     e1 == FirstEntry(c.pdf.objectId[1], c.cat)
                 IN  (/\ InCatalog(r2.objectId, cat2)
                      /\ FidsCovered(df2, FirstEntry(r2.objectId, cat2)))
                     => \A i \in 1..n :
                          (/\ i <= FrameLen(df2)
                           /\ df2.cmagpsf[i] = c.pdf.cmagpsf[i]
                           /\ df2.csigmapsf[i] = c.pdf.csigmapsf[i]
                           /\ df2.cmagnr[i] = c.pdf.cmagnr[i]
                           /\ df2.csigmagnr[i] = c.pdf.csigmagnr[i]
                           /\ df2.cisdiffpos[i] = c.pdf.cisdiffpos[i]
                           /\ df2.cfid[i] = c.pdf.cfid[i]
                           /\ FirstEntry(r2.objectId, cat2).Array_of_Medians[df2.cfid[i]]
                                = e1.Array_of_Medians[c.pdf.cfid[i]])
                          => LET o2 == standardized_flux_(df2, cat2)
                             IN  /\ c.r.status = "return"
                                 /\ o2.status = "return"
                                 /\ c.r.flux[i] = o2.flux[i]
                                 /\ c.r.sigma[i] = o2.sigma[i]

\* C8: every invocation, returning or raising, leaves the catalog and the
\* alert frame it was given as they were, so each invocation of a batch sees
\* the catalog as loaded and gives the outcome it gives on a fresh frame of
\* its row and the catalog as loaded.
C8_ArgumentsLeftUnchanged ==
    /\ loads > 0 => CTAO_blazar = catalogFile
    /\ \A k \in 1..Len(calls) :
        LET c == calls[k]
            alone == standardized_flux_(DataFrame(tmp(pdf, pdf[c.row].candid)[1]).frame,
                                        catalogFile)
        IN  /\ c.r.pdf = c.pdf
            /\ c.r.CTAO_blazar = c.cat
            /\ c.cat = catalogFile
            /\ c.r.status = alone.status
            /\ c.r.flux = alone.flux
            /\ c.r.sigma = alone.sigma

C8_Witness ==
    /\ pc = "raised"
    /\ Len(calls) >= 2
    /\ Len(catalogFile) >= 2
    /\ calls[1].r.status = "return"
    /\ calls[2].r.status # "return"

\* C9: a batch of R rows gives R results in row order, result i being the
\* flux/sigma map standardized_flux_ computes from row i's own objectId and
\* per-epoch fields, one invocation per row.
C9_ResultPerRowFromOwnFields ==
    pc = "done"
    => /\ Len(out) = Len(pdf)
       /\ Len(calls) = Len(pdf)
       /\ \A k \in 1..Len(pdf) :
            /\ WellFormed(pdf[k])
            /\ calls[k].pdf = DataFrame(pdf[k]).frame
            /\ LET own == standardized_flux_(DataFrame(pdf[k]).frame, catalogFile)
               IN  out[k] = [flux |-> own.flux, sigma |-> own.sigma]

\* C10: within one UDF call the catalog is read exactly once, before the
\* first invocation, and every invocation is handed the catalog that read
\* produced.
C10_CatalogReadOncePerBatch ==
    /\ pc = "start" => (loads = 0 /\ calls = <<>>)
    /\ pc # "start" => loads = 1
    /\ \A k \in 1..Len(calls) : calls[k].cat = catalogFile

C10_Witness ==
    /\ pc = "done"
    /\ Len(calls) >= 2
    /\ catalogFile # <<>>
    /\ loads = 1

====
